---------------------------- MODULE Spec2Model ----------------------------
(***************************************************************************)
(* Meeting-recording pipeline (recapv1): the segmenter split_audio, the    *)
(* Streamlit session of app.py (plain/segmented run, diarized run,         *)
(* summary), the normalizer prepare_audio / convert_to_wav and the         *)
(* diarized-segment formatter transcribe_diarized.                         *)
(*                                                                         *)
(* Strings are sequences of tokens (a token is a character or a fixed      *)
(* piece of a format string), so joins and formats are computed.           *)
(***************************************************************************)
EXTENDS Integers, Sequences, FiniteSets, TLC

VARIABLES
    \* ---- split_audio applied to one input (SpecSplit)
    sp_audio,          \* the waveform: a sequence of samples, one per ms
    sp_max_chunk_ms,   \* the max_chunk_ms argument
    sp_chunks,         \* the list returned
    sp_pc              \* "ready" | "done"

splitVars == <<sp_audio, sp_max_chunk_ms, sp_chunks, sp_pc>>

VARIABLES
    \* ---- one Streamlit session of app.py (Spec)
    client,             \* "configured" | "none": the OpenAI client of app.py:15-20
    uploaded_file,      \* NoFile, or the file the uploader widget holds
    session_state,      \* st.session_state: a function on the keys that are set
    pc,                 \* "idle" | "loop" | "call" | "dcall": where the script is
    chunks,             \* chunks of the plain run
    max_chunk_ms,       \* max_chunk_ms of the plain run, in model samples
    idx,                \* loop index of the plain run
    all_text_parts,     \* texts collected by the plain run
    status_placeholder, \* the single-slot status element (st.empty)
    st_errors,          \* st.error messages shown by the current script run
    text_area,          \* transcript text areas shown by the current script run
    whisper_calls,      \* requests sent to whisper-1 in the current run, each with
                        \* its answer once whisper-1 has returned one
    diarize_calls,      \* requests sent to gpt-4o-transcribe-diarize in the run
    summary_calls,      \* transcripts sent to gpt-4o-mini by the last request
    run,                \* what the current script run did: kind, outcome, failure
    prev,               \* the transcription run that finished before this one
    nruns,              \* transcription runs started in the session
    last_success        \* <<>>, or <<t>>: t is what the services answered to the
                        \* last run that ended well, put together (a record
                        \* kept beside the program, which never reads it)

appVars == <<client, uploaded_file, session_state, pc, chunks,
             max_chunk_ms, idx, all_text_parts, status_placeholder, st_errors,
             text_area, whisper_calls, diarize_calls, summary_calls, run, prev, nruns,
             last_success>>

VARIABLES
    \* ---- prepare_audio applied to one upload (SpecPrepare)
    pa_file,        \* the uploaded file: name, size, bytes
    pa_pc,          \* "ready" | "written" | "ran" | "done"
    pa_disk,        \* the files on disk: a function from path to content
    pa_transcoder,  \* "notrun" | "missing" | "exit0" | "exit1": how ffmpeg ended
    pa_result       \* what prepare_audio gave: a buffer or a raised exception

prepVars == <<pa_file, pa_pc, pa_disk, pa_transcoder, pa_result>>

VARIABLES
    \* ---- the two diarized formatters applied to one answer (SpecDiarize)
    df_segments,    \* diarized.segments as the service answered
    df_result,      \* what transcribe_diarized gave: a string or an exception
    df_app_result   \* labeled_transcript of app.py for the same segments

diarVars == <<df_segments, df_result, df_app_result>>

vars == <<splitVars, appVars, prepVars, diarVars>>

notSplit == <<appVars, prepVars, diarVars>>
notApp == <<splitVars, prepVars, diarVars>>
notPrep == <<splitVars, appVars, diarVars>>
notDiar == <<splitVars, appVars, prepVars>>

-----------------------------------------------------------------------------
(* Bounds *)

MaxDuration == 12      \* longest waveform given to split_audio, in ms
MaxChunkMs == 6        \* largest max_chunk_ms given to split_audio

-----------------------------------------------------------------------------
(* Python helpers *)

Min(a, b) == IF a < b THEN a ELSE b

\* range() stopping one value early: a fault the one-chunk claim must detect
RangeShort(start, stop, step) ==
    LET n == IF stop - 1 <= start THEN 0 ELSE (stop - 1 - start + step - 1) \div step
    IN  [i \in 1..n |-> start + (i - 1) * step]

\* range(start, stop, step) for step > 0, as the list of its values
Range(start, stop, step) ==
    LET n == IF stop <= start THEN 0 ELSE (stop - start + step - 1) \div step
    IN  [i \in 1..n |-> start + (i - 1) * step]

\* a slice that loses its first sample: a fault the coverage claim must detect
SliceDropFirst(audio, start_ms, end_ms) == SubSeq(audio, start_ms + 2, end_ms)

\* audio[start_ms:end_ms]: the samples at 0-based positions start_ms..end_ms-1
Slice(audio, start_ms, end_ms) == SubSeq(audio, start_ms + 1, end_ms)

\* split_audio(audio, max_chunk_ms); the parameter is named chunk_ms here
split_audio(audio, chunk_ms) ==
    LET total_length == Len(audio)
        starts == Range(0, total_length, chunk_ms)
    IN  [i \in 1..Len(starts) |->
            Slice(audio, starts[i], Min(starts[i] + chunk_ms, total_length))]

\* A waveform of duration d: sample i is tagged with its position, so that a
\* dropped, duplicated or reordered sample shows in the result.
Waveform(d) == [i \in 1..d |-> i]

-----------------------------------------------------------------------------
(* SpecSplit: split_audio on every waveform and max_chunk_ms within bounds *)

SplitInit ==
    /\ \E d \in 0..MaxDuration : sp_audio = Waveform(d)
    /\ sp_max_chunk_ms \in 1..MaxChunkMs
    /\ sp_chunks = <<>>
    /\ sp_pc = "ready"

SplitCall ==
    /\ sp_pc = "ready"
    /\ sp_chunks' = split_audio(sp_audio, sp_max_chunk_ms)
    /\ sp_pc' = "done"
    /\ UNCHANGED <<sp_audio, sp_max_chunk_ms>>
    /\ UNCHANGED notSplit


-----------------------------------------------------------------------------
(* Strings: sequences of tokens *)

\* sep.join(parts)
RECURSIVE Join(_, _)
Join(parts, sep) ==
    IF parts = <<>> THEN <<>>
    ELSE IF Len(parts) = 1 THEN parts[1]
    ELSE parts[1] \o sep \o Join(Tail(parts), sep)

BlankLine == <<"\n", "\n">>     \* the separator "\n\n" of app.py:162
NewLine == <<"\n">>             \* the separator "\n" of app.py:239

\* the missing value None of an optional number (times are >= 0)
None == -1

\* f"{x:.1f}" for a time x kept in hundredths of a second
Fmt1(x) ==
    LET tenths == (x + 5) \div 10
    IN  <<ToString(tenths \div 10), ".", ToString(tenths % 10)>>

-----------------------------------------------------------------------------
(* The Streamlit session of app.py *)

MaxUnits == 2          \* longest decoded upload, in units of SampleMs
MaxRuns == 2           \* transcription runs started in one session
MaxAppSegs == 1        \* segments in a diarized response of the session

\* One sample of a session waveform stands for five minutes of audio, the
\* step of the chunk-length slider (app.py:116-123).
SampleMs == 5 * 60 * 1000

max_bytes == 25 * 1024 * 1024

UploaderTypes == {"mp3", "wav", "m4a"}
TriedExtensions == {"wav", "ogg", "aac"}
SliderValues == {5, 10, 15, 20}
Sizes == {max_bytes, max_bytes + 1}

NoFile == [ext |-> "none", size |-> 0, units |-> 0, decodable |-> FALSE]

Files ==
    [ext : UploaderTypes \cap TriedExtensions, size : Sizes, units : 0..MaxUnits,
     decodable : {TRUE}]
    \cup [ext : UploaderTypes \cap TriedExtensions, size : Sizes, units : {0},
          decodable : {FALSE}]
    \cup [ext : TriedExtensions \ UploaderTypes, size : Sizes, units : {1},
          decodable : {TRUE}]

\* what whisper-1 may answer for a chunk, and what a service call may raise
Texts == {<<"bonjour">>, <<"merci">>}
ServiceErrors == {[type |-> "APIError", msg |-> "rate limit"],
                  [type |-> "APIError", msg |-> "timeout"]}
DecodeError == [type |-> "CouldntDecodeError", msg |-> "decoding failed"]
NoError == [type |-> "none", msg |-> ""]

\* a message that drops the exception: a fault the error claim must detect
StrGeneric(e) == "error"

\* str(e)
Str(e) == e.msg

MsgNoKey == "Aucune cle API OpenAI detectee"
MsgTranscriptionError == "Erreur lors de la transcription."
MsgTooLargeForDiarization == "Fichier trop volumineux pour la diarisation"
MsgDiarizationError == "Erreur lors de la transcription avec diarisation."
MsgSummaryError == "Erreur lors de la generation du compte rendu."

EmptySlot == [level |-> "empty", msg |-> "", idx |-> 0, total |-> 0]
StatusChunk(i, n) == [level |-> "info", msg |-> "Transcription du morceau", idx |-> i, total |-> n]
StatusDone == [level |-> "success", msg |-> "Transcription terminee", idx |-> 0, total |-> 0]
StatusError == [level |-> "error", msg |-> MsgTranscriptionError, idx |-> 0, total |-> 0]

\* the texts whisper-1 returned, in the order of its calls
Answers == [i \in 1..Len(whisper_calls) |-> whisper_calls[i].answer[1]]

\* a store that adds to what the key held: a fault the replaced-wholesale
\* claim must detect
SetKeyMerging(ss, key, value) ==
    [k \in DOMAIN ss \cup {key} |->
        IF k = key THEN (IF key \in DOMAIN ss THEN ss[key] \o BlankLine \o value ELSE value)
        ELSE ss[k]]

\* st.session_state[key] = value
SetKey(ss, key, value) ==
    [k \in DOMAIN ss \cup {key} |-> IF k = key THEN value ELSE ss[k]]

NoState == [k \in {} |-> <<>>]

NoRun == [kind |-> "none", outcome |-> "none", k |-> 0, err |-> NoError,
          file |-> NoFile, before |-> NoState]

Finished(r) == [kind |-> r.kind, file |-> r.file, outcome |-> r.outcome]

\* the script reruns: a transcription run it shows becomes the previous one
Archive == prev' = IF run.kind = "none" THEN prev ELSE Finished(run)

\* a transcription run starts
Starts ==
    /\ nruns' = nruns + 1
    /\ Archive

RunOf(kind, outcome, k, err) ==
    [kind |-> kind, outcome |-> outcome, k |-> k, err |-> err,
     file |-> uploaded_file, before |-> session_state]

\* diarized segments the service may return in the session
Segment(speaker, start, end, text) ==
    [speaker |-> speaker, start |-> start, end |-> end, text |-> text]

AppSegs == {Segment("A", 0, 517, <<"hi">>), Segment("B", None, None, <<"bye">>)}

RECURSIVE SeqsUpTo(_, _)
SeqsUpTo(S, n) ==
    IF n = 0 THEN {<<>>}
    ELSE LET shorter == SeqsUpTo(S, n - 1)
         IN  shorter \cup {Append(q, x) : q \in {r \in shorter : Len(r) = n - 1}, x \in S}

\* the line of one segment, app.py:227-237 (the token "s-" stands for "s"
\* followed by the en dash of the format string)
AppLine(seg) ==
    IF seg.start # None /\ seg.end # None
    THEN <<"Speaker ", seg.speaker, " [">> \o Fmt1(seg.start) \o <<"s-">>
            \o Fmt1(seg.end) \o <<"s] : ">> \o seg.text
    ELSE <<"Speaker ", seg.speaker, " : ">> \o seg.text

\* labeled_transcript of app.py:225-239
AppFormat(segments) ==
    Join([i \in 1..Len(segments) |-> AppLine(segments[i])], NewLine)

\* a text put in front of the list: a fault the ordering claim must detect
CollectFront(parts, text) == <<text>> \o parts

\* all_text_parts.append(text)
Collect(parts, text) == Append(parts, text)

\* a gate with the wrong ceiling: a fault the size-gate claim must detect
TooLargeAboveDouble(size) == size > 2 * max_bytes

\* uploaded_file.size > max_bytes
TooLargeForDiarization(size) == size > max_bytes

\* an except clause that stores the texts collected so far: a fault the
\* no-partial-transcript claim must detect
ExceptKeepsPartial(ss, parts) == SetKey(ss, "full_transcript", Join(parts, BlankLine))

\* what the except clause of the plain run leaves in st.session_state
PlainExceptState(ss, parts) == ss

AppFresh ==
    /\ uploaded_file = NoFile
    /\ session_state = NoState
    /\ chunks = <<>>
    /\ max_chunk_ms = 0
    /\ idx = 0
    /\ all_text_parts = <<>>
    /\ status_placeholder = EmptySlot
    /\ st_errors = <<>>
    /\ text_area = <<>>
    /\ whisper_calls = <<>>
    /\ diarize_calls = <<>>
    /\ summary_calls = <<>>
    /\ run = NoRun
    /\ prev = Finished(NoRun)
    /\ nruns = 0
    /\ last_success = <<>>

\* the session when the script first runs: the API key is set or not
AppInit ==
    /\ client \in {"configured", "none"}
    /\ pc = "idle"
    /\ AppFresh

\* a script rerun starts from an empty page and fresh script variables
Rerun ==
    /\ chunks' = <<>>
    /\ max_chunk_ms' = 0
    /\ idx' = 0
    /\ all_text_parts' = <<>>
    /\ whisper_calls' = <<>>

NoCalls ==
    /\ diarize_calls' = <<>>
    /\ summary_calls' = <<>>

\* st.file_uploader(type=["mp3", "wav", "m4a"]) takes a file
UploadAccepted(f) ==
    /\ pc = "idle"
    /\ f.ext \in UploaderTypes
    /\ uploaded_file' = f
    /\ Rerun
    /\ NoCalls
    /\ status_placeholder' = EmptySlot
    /\ st_errors' = <<>>
    /\ text_area' = <<>>
    /\ run' = NoRun
    /\ UNCHANGED notApp
    /\ Archive
    /\ UNCHANGED <<client, last_success, session_state, pc, nruns>>

\* st.file_uploader refuses a file whose extension is not in its type list:
\* the widget keeps what it held and the script sees no new file
UploadRefused(f) ==
    /\ pc = "idle"
    /\ f.ext \notin UploaderTypes
    /\ UNCHANGED vars

CanStartRun ==
    /\ pc = "idle"
    /\ uploaded_file # NoFile
    /\ nruns < MaxRuns

\* "Transcrire la reunion (Whisper)" without an API key, app.py:126-127
PlainNoClient ==
    /\ CanStartRun
    /\ Starts
    /\ client = "none"
    /\ Rerun
    /\ NoCalls
    /\ status_placeholder' = EmptySlot
    /\ st_errors' = <<MsgNoKey>>
    /\ text_area' = <<>>
    /\ run' = RunOf("plain", "unconfigured", 0, NoError)
    /\ UNCHANGED notApp
    /\ UNCHANGED <<client, last_success, uploaded_file, session_state, pc>>

\* the plain run when load_audio_to_pydub raises, app.py:129-132, 181-183
PlainLoadFails ==
    /\ CanStartRun
    /\ Starts
    /\ client = "configured"
    /\ ~uploaded_file.decodable
    /\ Rerun
    /\ NoCalls
    /\ status_placeholder' = StatusError
    /\ st_errors' = <<Str(DecodeError)>>
    /\ text_area' = <<>>
    /\ session_state' = PlainExceptState(session_state, <<>>)
    /\ run' = RunOf("plain", "failed", 0, DecodeError)
    /\ UNCHANGED notApp
    /\ UNCHANGED <<client, last_success, uploaded_file, pc>>

\* the plain run up to the loop: load, split, app.py:129-153
PlainStart(chunk_length_minutes) ==
    /\ CanStartRun
    /\ Starts
    /\ client = "configured"
    /\ uploaded_file.decodable
    /\ LET audio == Waveform(uploaded_file.units)
           ms == chunk_length_minutes * 60 * 1000
       IN  /\ max_chunk_ms' = ms
           /\ chunks' = split_audio(audio, ms \div SampleMs)
    /\ idx' = 0
    /\ all_text_parts' = <<>>
    /\ whisper_calls' = <<>>
    /\ diarize_calls' = <<>>
    /\ summary_calls' = <<>>
    /\ status_placeholder' = [level |-> "info", msg |-> "Transcription en cours", idx |-> 0, total |-> 0]
    /\ st_errors' = <<>>
    /\ text_area' = <<>>
    /\ run' = RunOf("plain", "running", 0, NoError)
    /\ pc' = "loop"
    /\ UNCHANGED notApp
    /\ UNCHANGED <<client, last_success, uploaded_file, session_state>>

\* one loop iteration up to the request, app.py:155-157 and 84-101
PlainSubmit ==
    /\ pc = "loop"
    /\ idx < Len(chunks)
    /\ idx' = idx + 1
    /\ status_placeholder' = StatusChunk(idx + 1, Len(chunks))
    /\ whisper_calls' = Append(whisper_calls,
            [chunk |-> chunks[idx + 1], language |-> "fr", answer |-> <<>>])
    /\ pc' = "call"
    /\ UNCHANGED notApp
    /\ UNCHANGED <<client, last_success, uploaded_file, session_state, chunks,
                   max_chunk_ms, all_text_parts, st_errors, text_area, diarize_calls,
                   summary_calls, run, prev, nruns>>

\* whisper-1 answers: app.py:102, 158-160
WhisperReturns(text) ==
    /\ pc = "call"
    /\ whisper_calls' = [whisper_calls EXCEPT ![Len(whisper_calls)].answer = <<text>>]
    /\ all_text_parts' = Collect(all_text_parts, text)
    /\ pc' = "loop"
    /\ UNCHANGED notApp
    /\ UNCHANGED <<client, last_success, uploaded_file, session_state, chunks,
                   max_chunk_ms, idx, status_placeholder, st_errors, text_area,
                   diarize_calls, summary_calls, run, prev, nruns>>

\* whisper-1 raises: the except clause, app.py:181-183
WhisperRaises(e) ==
    /\ pc = "call"
    /\ status_placeholder' = StatusError
    /\ st_errors' = Append(st_errors, Str(e))
    /\ session_state' = PlainExceptState(session_state, all_text_parts)
    /\ run' = [run EXCEPT !.outcome = "failed", !.k = idx, !.err = e]
    /\ pc' = "idle"
    /\ UNCHANGED <<prev, nruns>>
    /\ UNCHANGED notApp
    /\ UNCHANGED <<client, last_success, uploaded_file, chunks, max_chunk_ms, idx,
                   all_text_parts, text_area, whisper_calls, diarize_calls,
                   summary_calls>>

\* after the loop: join, show, store, app.py:162-179
PlainFinish ==
    /\ pc = "loop"
    /\ idx >= Len(chunks)
    /\ LET full_transcript == Join(all_text_parts, BlankLine)
       IN  /\ text_area' = Append(text_area, full_transcript)
           /\ session_state' = SetKey(session_state, "full_transcript", full_transcript)
    /\ status_placeholder' = StatusDone
    /\ run' = [run EXCEPT !.outcome = "ok"]
    /\ pc' = "idle"
    /\ UNCHANGED <<prev, nruns>>
    /\ UNCHANGED notApp
    /\ last_success' = <<Join(Answers, BlankLine)>>
    /\ UNCHANGED <<client, uploaded_file, chunks, max_chunk_ms, idx,
                   all_text_parts, st_errors, whisper_calls, diarize_calls,
                   summary_calls>>

\* "Transcrire avec diarisation" without an API key, app.py:194-195
DiarNoClient ==
    /\ CanStartRun
    /\ Starts
    /\ client = "none"
    /\ Rerun
    /\ NoCalls
    /\ status_placeholder' = EmptySlot
    /\ st_errors' = <<MsgNoKey>>
    /\ text_area' = <<>>
    /\ run' = RunOf("diarized", "unconfigured", 0, NoError)
    /\ UNCHANGED notApp
    /\ UNCHANGED <<client, last_success, uploaded_file, session_state, pc>>

\* the size gate of the diarized run, app.py:198-203
DiarTooLarge ==
    /\ CanStartRun
    /\ Starts
    /\ client = "configured"
    /\ TooLargeForDiarization(uploaded_file.size)
    /\ Rerun
    /\ NoCalls
    /\ status_placeholder' = EmptySlot
    /\ st_errors' = <<MsgTooLargeForDiarization>>
    /\ text_area' = <<>>
    /\ run' = RunOf("diarized", "rejected", 0, NoError)
    /\ UNCHANGED notApp
    /\ UNCHANGED <<client, last_success, uploaded_file, session_state, pc>>

\* the diarized run up to the request, app.py:205-218
DiarSubmit ==
    /\ CanStartRun
    /\ Starts
    /\ client = "configured"
    /\ ~TooLargeForDiarization(uploaded_file.size)
    /\ Rerun
    /\ summary_calls' = <<>>
    /\ diarize_calls' = <<[ext |-> uploaded_file.ext, size |-> uploaded_file.size]>>
    /\ status_placeholder' = EmptySlot
    /\ st_errors' = <<>>
    /\ text_area' = <<>>
    /\ run' = RunOf("diarized", "running", 0, NoError)
    /\ pc' = "dcall"
    /\ UNCHANGED notApp
    /\ UNCHANGED <<client, last_success, uploaded_file, session_state>>

\* the service answers with segments, app.py:221-250
DiarReturns(segments) ==
    /\ pc = "dcall"
    /\ LET labeled_transcript == AppFormat(segments)
       IN  /\ text_area' = Append(text_area, labeled_transcript)
           /\ session_state' = SetKey(session_state, "full_transcript", labeled_transcript)
    /\ run' = [run EXCEPT !.outcome = "ok"]
    /\ pc' = "idle"
    /\ UNCHANGED <<prev, nruns>>
    /\ UNCHANGED notApp
    /\ last_success' = <<AppFormat(segments)>>
    /\ UNCHANGED <<client, uploaded_file, chunks, max_chunk_ms, idx,
                   all_text_parts, status_placeholder, st_errors, whisper_calls,
                   diarize_calls, summary_calls>>

\* the service raises, app.py:252-254
DiarRaises(e) ==
    /\ pc = "dcall"
    /\ st_errors' = st_errors \o <<MsgDiarizationError, Str(e)>>
    /\ run' = [run EXCEPT !.outcome = "failed", !.err = e]
    /\ pc' = "idle"
    /\ UNCHANGED <<prev, nruns>>
    /\ UNCHANGED notApp
    /\ UNCHANGED <<client, last_success, uploaded_file, session_state, chunks,
                   max_chunk_ms, idx, all_text_parts, status_placeholder, text_area,
                   whisper_calls, diarize_calls, summary_calls>>

Summaries == {<<"compte rendu">>}
SummaryErrors == {[type |-> "APIError", msg |-> "rate limit"]}

CanSummarize ==
    /\ pc = "idle"
    /\ "full_transcript" \in DOMAIN session_state

\* The summary button without an API key (app.py:290-291) cannot be pressed in
\* a session: the key is read once when the process starts, and without it no
\* run ever stores full_transcript, so the button is never drawn.

\* the summary request answered, app.py:265-341
SummaryReturns(cr_texte) ==
    /\ CanSummarize
    /\ client = "configured"
    /\ Rerun
    /\ diarize_calls' = <<>>
    /\ summary_calls' = <<session_state["full_transcript"]>>
    /\ session_state' = SetKey(session_state, "meeting_summary", cr_texte)
    /\ status_placeholder' = EmptySlot
    /\ st_errors' = <<>>
    /\ text_area' = <<>>
    /\ run' = NoRun
    /\ UNCHANGED notApp
    /\ Archive
    /\ UNCHANGED <<client, last_success, uploaded_file, pc, nruns>>

\* the summary request raises, app.py:343-345
SummaryRaises(e) ==
    /\ CanSummarize
    /\ client = "configured"
    /\ Rerun
    /\ diarize_calls' = <<>>
    /\ summary_calls' = <<session_state["full_transcript"]>>
    /\ status_placeholder' = EmptySlot
    /\ st_errors' = <<MsgSummaryError, Str(e)>>
    /\ text_area' = <<>>
    /\ run' = NoRun
    /\ UNCHANGED notApp
    /\ Archive
    /\ UNCHANGED <<client, last_success, uploaded_file, session_state, pc, nruns>>

\* the session of app.py: every widget interaction and every service answer
Next ==
    \/ \E f \in Files : UploadAccepted(f)
    \/ \E f \in Files : UploadRefused(f)
    \/ PlainNoClient
    \/ PlainLoadFails
    \/ \E m \in SliderValues : PlainStart(m)
    \/ PlainSubmit
    \/ \E t \in Texts : WhisperReturns(t)
    \/ \E e \in ServiceErrors : WhisperRaises(e)
    \/ PlainFinish
    \/ DiarNoClient
    \/ DiarTooLarge
    \/ DiarSubmit
    \/ \E segs \in SeqsUpTo(AppSegs, MaxAppSegs) : DiarReturns(segs)
    \/ \E e \in ServiceErrors : DiarRaises(e)
    \/ \E s \in Summaries : SummaryReturns(s)
    \/ \E e \in SummaryErrors : SummaryRaises(e)

-----------------------------------------------------------------------------
(* utils/audio.py: prepare_audio and convert_to_wav *)

MAX_FILE_SIZE == 25 * 1024 * 1024

\* file names as their dot-separated parts
Names == {<<"reunion", "aac">>, <<"reunion", "AMR">>, <<"reunion", "wav">>,
          <<"reunion", "v2", "mp3">>, <<"reunion", "m4a">>, <<"reunion", "ogg">>}
RawBytes == {"raw1", "raw2"}
PrepSizes == {1024, MAX_FILE_SIZE, MAX_FILE_SIZE + 1}

\* str.lower() on the name parts in use
Lower(t) == IF t = "AMR" THEN "amr" ELSE t

\* uploaded_file.name.split(".")[-1].lower()
FileExt(name) == Lower(name[Len(name)])

\* the formats prepare_audio converts, utils/audio.py:58
NeedsConversion(file_ext) == file_ext \in {"aac", "amr"}

\* the two transient paths of convert_to_wav, utils/audio.py:15-20
InputPath(input_extension) == <<"tmp", ".", input_extension>>
OutputPath(input_extension) == InputPath(input_extension) \o <<"_converted.wav">>

\* what ffmpeg writes when it exits with status 0, and what a failed run may
\* leave behind
Wav(bytes) == <<"wav mono 16k", bytes>>
Partial(bytes) == <<"truncated", bytes>>

NoResult == [kind |-> "none", name |-> <<>>, data |-> <<>>, error |-> NoError]
Returned(name, data) == [kind |-> "buffer", name |-> name, data |-> data, error |-> NoError]
Raised(type, msg) == [kind |-> "raised", name |-> <<>>, data |-> <<>>,
                      error |-> [type |-> type, msg |-> msg]]

EmptyDisk == [path \in {} |-> <<>>]
WriteFile(disk, path, content) ==
    [q \in DOMAIN disk \cup {path} |-> IF q = path THEN content ELSE disk[q]]

PrepInit ==
    /\ pa_file \in [name : Names, size : PrepSizes, bytes : RawBytes]
    /\ pa_pc = "ready"
    /\ pa_disk = EmptyDisk
    /\ pa_transcoder = "notrun"
    /\ pa_result = NoResult

PrepOff ==
    /\ pa_file = [name |-> <<"none">>, size |-> 0, bytes |-> "raw1"]
    /\ pa_pc = "off"
    /\ pa_disk = EmptyDisk
    /\ pa_transcoder = "notrun"
    /\ pa_result = NoResult

\* prepare_audio raises on size, utils/audio.py:52-56
PrepareTooLarge ==
    /\ pa_pc = "ready"
    /\ pa_file.size > MAX_FILE_SIZE
    /\ pa_result' = Raised("ValueError", "Fichier trop volumineux")
    /\ pa_pc' = "done"
    /\ UNCHANGED <<pa_file, pa_disk, pa_transcoder>>
    /\ UNCHANGED notPrep

\* prepare_audio keeps the bytes as they are, utils/audio.py:61-64
PreparePassThrough ==
    /\ pa_pc = "ready"
    /\ ~(pa_file.size > MAX_FILE_SIZE)
    /\ ~NeedsConversion(FileExt(pa_file.name))
    /\ pa_result' = Returned(pa_file.name, <<pa_file.bytes>>)
    /\ pa_pc' = "done"
    /\ UNCHANGED <<pa_file, pa_disk, pa_transcoder>>
    /\ UNCHANGED notPrep

\* convert_to_wav writes the transient input, utils/audio.py:15-29
ConvertWritesInput ==
    /\ pa_pc = "ready"
    /\ ~(pa_file.size > MAX_FILE_SIZE)
    /\ NeedsConversion(FileExt(pa_file.name))
    /\ pa_disk' = WriteFile(pa_disk, InputPath(FileExt(pa_file.name)), <<pa_file.bytes>>)
    /\ pa_pc' = "written"
    /\ UNCHANGED <<pa_file, pa_transcoder, pa_result>>
    /\ UNCHANGED notPrep

\* subprocess.run raises because there is no ffmpeg, utils/audio.py:31
TranscoderMissing ==
    /\ pa_pc = "written"
    /\ pa_transcoder' = "missing"
    /\ pa_result' = Raised("FileNotFoundError", "ffmpeg")
    /\ pa_pc' = "done"
    /\ UNCHANGED <<pa_file, pa_disk>>
    /\ UNCHANGED notPrep

\* ffmpeg exits with status 0 and has written the output, utils/audio.py:31
TranscoderSucceeds ==
    /\ pa_pc = "written"
    /\ pa_transcoder' = "exit0"
    /\ pa_disk' = WriteFile(pa_disk, OutputPath(FileExt(pa_file.name)), Wav(pa_file.bytes))
    /\ pa_pc' = "ran"
    /\ UNCHANGED <<pa_file, pa_result>>
    /\ UNCHANGED notPrep

\* ffmpeg exits with a non-zero status before it opened the output; the
\* status is not looked at, utils/audio.py:31
TranscoderFailsNoOutput ==
    /\ pa_pc = "written"
    /\ pa_transcoder' = "exit1"
    /\ pa_pc' = "ran"
    /\ UNCHANGED <<pa_file, pa_disk, pa_result>>
    /\ UNCHANGED notPrep

\* ffmpeg exits with a non-zero status after it wrote part of the output; the
\* status is not looked at, utils/audio.py:31
TranscoderFailsPartialOutput ==
    /\ pa_pc = "written"
    /\ pa_transcoder' = "exit1"
    /\ pa_disk' = WriteFile(pa_disk, OutputPath(FileExt(pa_file.name)), Partial(pa_file.bytes))
    /\ pa_pc' = "ran"
    /\ UNCHANGED <<pa_file, pa_result>>
    /\ UNCHANGED notPrep

\* the output is read back and returned, utils/audio.py:33-38
ConvertReadsOutput ==
    /\ pa_pc = "ran"
    /\ OutputPath(FileExt(pa_file.name)) \in DOMAIN pa_disk
    /\ pa_result' = Returned(<<"converted", "wav">>, pa_disk[OutputPath(FileExt(pa_file.name))])
    /\ pa_pc' = "done"
    /\ UNCHANGED <<pa_file, pa_disk, pa_transcoder>>
    /\ UNCHANGED notPrep

\* open() raises because there is no output file, utils/audio.py:33
ConvertFindsNoOutput ==
    /\ pa_pc = "ran"
    /\ OutputPath(FileExt(pa_file.name)) \notin DOMAIN pa_disk
    /\ pa_result' = Raised("FileNotFoundError", "converted.wav")
    /\ pa_pc' = "done"
    /\ UNCHANGED <<pa_file, pa_disk, pa_transcoder>>
    /\ UNCHANGED notPrep

\* f.read() raises, utils/audio.py:34
ConvertReadRaises ==
    /\ pa_pc = "ran"
    /\ OutputPath(FileExt(pa_file.name)) \in DOMAIN pa_disk
    /\ pa_result' = Raised("OSError", "read")
    /\ pa_pc' = "done"
    /\ UNCHANGED <<pa_file, pa_disk, pa_transcoder>>
    /\ UNCHANGED notPrep

PrepNext ==
    \/ PrepareTooLarge
    \/ PreparePassThrough
    \/ ConvertWritesInput
    \/ TranscoderMissing
    \/ TranscoderSucceeds
    \/ TranscoderFailsNoOutput
    \/ TranscoderFailsPartialOutput
    \/ ConvertReadsOutput
    \/ ConvertFindsNoOutput
    \/ ConvertReadRaises

-----------------------------------------------------------------------------
(* utils/transcription.py: transcribe_diarized, beside the loop of app.py *)

MaxSegs == 2           \* segments in one diarized answer

DiarSegs == {Segment(sp, st, en, <<"hi">>) : sp \in {"A", "B"}, st \in {None, 0},
                                             en \in {None, 517}}

NoString == [kind |-> "none", value |-> <<>>, error |-> NoError]
StringOf(v) == [kind |-> "string", value |-> v, error |-> NoError]
RaisedError(type, msg) == [kind |-> "raised", value |-> <<>>,
                           error |-> [type |-> type, msg |-> msg]]

\* the line of one segment, utils/transcription.py:29-37 (the token "s-"
\* stands for "s" followed by the en dash of the format string)
UtilsLine(seg) ==
    IF seg.start # None
    THEN <<seg.speaker, " [">> \o Fmt1(seg.start) \o <<"s-">> \o Fmt1(seg.end)
            \o <<"s] : ">> \o seg.text
    ELSE <<seg.speaker, ": ">> \o seg.text

\* f"{end:.1f}" with end None raises TypeError
LineRaises(seg) == seg.start # None /\ seg.end = None

\* the formatting part of transcribe_diarized, utils/transcription.py:25-38
UtilsFormat(segments) ==
    IF \E i \in 1..Len(segments) : LineRaises(segments[i])
    THEN RaisedError("TypeError", "unsupported format string passed to NoneType.__format__")
    ELSE StringOf(Join([i \in 1..Len(segments) |-> UtilsLine(segments[i])], NewLine))

DiarInit ==
    /\ df_segments \in SeqsUpTo(DiarSegs, MaxSegs)
    /\ df_result = NoString
    /\ df_app_result = NoString

DiarOff ==
    /\ df_segments = <<>>
    /\ df_result = RaisedError("off", "")
    /\ df_app_result = RaisedError("off", "")

\* transcribe_diarized when the service answers df_segments
TranscribeDiarized ==
    /\ df_result = NoString
    /\ df_result' = UtilsFormat(df_segments)
    /\ UNCHANGED <<df_segments, df_app_result>>
    /\ UNCHANGED notDiar

\* transcribe_diarized when the service raises, utils/transcription.py:18-22
TranscribeDiarizedRaises(e) ==
    /\ df_result = NoString
    /\ df_result' = RaisedError(e.type, e.msg)
    /\ UNCHANGED <<df_segments, df_app_result>>
    /\ UNCHANGED notDiar

\* the loop of app.py on the same answer, app.py:221-239
AppFormats ==
    /\ df_app_result = NoString
    /\ df_app_result' = StringOf(AppFormat(df_segments))
    /\ UNCHANGED <<df_segments, df_result>>
    /\ UNCHANGED notDiar

DiarNext ==
    \/ TranscribeDiarized
    \/ \E e \in ServiceErrors : TranscribeDiarizedRaises(e)
    \/ AppFormats

-----------------------------------------------------------------------------
(* Specifications *)

\* the parts of the state a specification does not use
SplitOff ==
    /\ sp_audio = <<>>
    /\ sp_max_chunk_ms = 1
    /\ sp_chunks = <<>>
    /\ sp_pc = "off"

AppOff ==
    /\ client = "none"
    /\ pc = "off"
    /\ AppFresh

\* split_audio alone
SplitNext == SplitCall

InitSplit == SplitInit /\ AppOff /\ PrepOff /\ DiarOff

SpecSplit == InitSplit /\ [][SplitNext]_vars

\* prepare_audio alone
InitPrepare == PrepInit /\ SplitOff /\ AppOff /\ DiarOff

SpecPrepare == InitPrepare /\ [][PrepNext]_vars

\* the diarized formatters alone
InitDiarize == DiarInit /\ SplitOff /\ AppOff /\ PrepOff

SpecDiarize == InitDiarize /\ [][DiarNext]_vars

Init == AppInit /\ SplitOff /\ PrepOff /\ DiarOff

Spec == Init /\ [][Next]_vars

-----------------------------------------------------------------------------
(* Sequence helpers used by the properties *)

RECURSIVE Flatten(_)
Flatten(ss) == IF ss = <<>> THEN <<>> ELSE Head(ss) \o Flatten(Tail(ss))

RECURSIVE SumLen(_)
SumLen(ss) == IF ss = <<>> THEN 0 ELSE Len(Head(ss)) + SumLen(Tail(ss))

-----------------------------------------------------------------------------
(* Properties of split_audio (SpecSplit) *)

\* position in the waveform where chunk i starts: the durations before it
StartOf(cs, i) == SumLen(SubSeq(cs, 1, i - 1))

\* C1: for every waveform of duration D and every max_chunk_ms M > 0 the
\* chunks of split_audio are ordered, contiguous and non-overlapping (chunk 1
\* starts at 0, each chunk starts where the previous one ends), each lasts at
\* most M, the durations add up to D with no sample dropped or duplicated,
\* and for D > 0 the last chunk lasts D mod M, or M when that is 0.
C1_SplitCoversWaveformOnce ==
    sp_pc = "done" =>
        LET D == Len(sp_audio)
            M == sp_max_chunk_ms
            n == Len(sp_chunks)
        IN  /\ \A i \in 1..n :
                /\ Len(sp_chunks[i]) <= M
                /\ sp_chunks[i] = SubSeq(sp_audio, StartOf(sp_chunks, i) + 1,
                                         StartOf(sp_chunks, i) + Len(sp_chunks[i]))
                /\ sp_chunks[i] # <<>> => sp_chunks[i][1] = StartOf(sp_chunks, i) + 1
            /\ SumLen(sp_chunks) = D
            /\ Flatten(sp_chunks) = sp_audio
            /\ D > 0 => /\ n >= 1
                        /\ Len(sp_chunks[n]) = (IF D % M = 0 THEN M ELSE D % M)

C1_Witness ==
    /\ sp_pc = "done"
    /\ Len(sp_chunks) >= 3
    /\ Len(sp_audio) % sp_max_chunk_ms # 0

\* C2 as stated: every waveform with 0 <= D < M gives exactly one chunk, the
\* whole waveform.
C2_Original_OneChunkBelowMax ==
    (sp_pc = "done" /\ Len(sp_audio) < sp_max_chunk_ms) =>
        (Len(sp_chunks) = 1 /\ sp_chunks[1] = sp_audio)

\* C2 amended: a waveform with 0 < D < M gives exactly one chunk, the whole
\* waveform; the empty waveform (D = 0) gives no chunk at all.
C2_OneChunkBelowMax ==
    sp_pc = "done" =>
        /\ (0 < Len(sp_audio) /\ Len(sp_audio) < sp_max_chunk_ms) =>
                (Len(sp_chunks) = 1 /\ sp_chunks[1] = sp_audio)
        /\ Len(sp_audio) = 0 => sp_chunks = <<>>

C2_Witness ==
    /\ sp_pc = "done"
    /\ 0 < Len(sp_audio)
    /\ Len(sp_audio) < sp_max_chunk_ms
    /\ Len(sp_chunks) = 1

-----------------------------------------------------------------------------
(* Properties of the session (Spec) *)

PlainRunPastLoad == run.kind = "plain" /\ run.outcome \in {"running", "ok", "failed"} /\ run.err # DecodeError

\* C3: in a plain run whisper-1 is called once per chunk, one call at a time,
\* in chunk order (call i is for chunk i and starts only when every earlier
\* call has returned), and the transcript stored on success is the returned
\* texts in call order joined by a blank line, so piece i of the transcript is
\* the text returned for chunk i.
C3_OneCallPerChunkInOrder ==
    PlainRunPastLoad =>
        /\ Len(whisper_calls) = idx
        /\ idx <= Len(chunks)
        /\ \A i \in 1..idx : whisper_calls[i].chunk = chunks[i]
        /\ \A i \in 1..(idx - 1) : whisper_calls[i].answer # <<>>
        /\ pc = "call" => whisper_calls[idx].answer = <<>>
        /\ pc = "loop" => \A i \in 1..idx :
                all_text_parts[i] = whisper_calls[i].answer[1]
        /\ run.outcome = "ok" =>
                /\ idx = Len(chunks)
                /\ session_state["full_transcript"] = Join(Answers, BlankLine)
                /\ text_area = <<Join(Answers, BlankLine)>>

C3_Witness ==
    /\ run.kind = "plain"
    /\ run.outcome = "ok"
    /\ Len(chunks) >= 2
    /\ whisper_calls[1].answer # whisper_calls[2].answer

\* C4: when the call for chunk k of a plain run fails the run is over: no
\* chunk after k is submitted, no chunk is submitted twice, the texts of
\* chunks 1..k-1 are shown and stored nowhere, and st.session_state is what it
\* was when the run started.
C4_FailedRunCommitsNothing ==
    (run.kind = "plain" /\ run.outcome = "failed" /\ run.k >= 1) =>
        /\ pc = "idle"
        /\ Len(whisper_calls) = run.k
        /\ \A i \in 1..run.k : whisper_calls[i].chunk = chunks[i]
        /\ \A i, j \in 1..run.k : i # j => whisper_calls[i].chunk # whisper_calls[j].chunk
        /\ text_area = <<>>
        /\ session_state = run.before

C4_Witness ==
    /\ run.kind = "plain"
    /\ run.outcome = "failed"
    /\ run.k >= 2
    /\ "full_transcript" \in DOMAIN run.before

\* C5: a diarized run on an upload of more than 25 MiB is refused with the
\* too-large-for-diarization error before any service call and without any
\* splitting; a plain run on the same upload is not refused for its size: it
\* splits the audio and transcribes the chunks.
C5_SizeGateOnlyInDiarizedMode ==
    (client = "configured" /\ run.file.size > 25 * 1024 * 1024) =>
        /\ run.kind = "diarized" =>
                /\ run.outcome = "rejected"
                /\ pc = "idle"
                /\ st_errors = <<MsgTooLargeForDiarization>>
                /\ diarize_calls = <<>>
                /\ whisper_calls = <<>>
                /\ chunks = <<>>
                /\ session_state = run.before
        /\ (run.kind = "plain" /\ run.file.decodable) =>
                /\ run.outcome \in {"running", "ok", "failed"}
                /\ run.outcome = "failed" => run.k >= 1
                /\ \A i \in 1..Len(st_errors) : st_errors[i] # MsgTooLargeForDiarization
                /\ chunks = split_audio(Waveform(run.file.units), max_chunk_ms \div SampleMs)
                /\ run.outcome = "ok" => Len(whisper_calls) = Len(chunks)

C5_Witness ==
    /\ prev.kind = "diarized"
    /\ prev.outcome = "rejected"
    /\ prev.file.size = 26214401
    /\ run.kind = "plain"
    /\ run.file = prev.file
    /\ run.outcome = "ok"
    /\ Len(whisper_calls) >= 2

-----------------------------------------------------------------------------
(* Properties of prepare_audio / convert_to_wav (SpecPrepare) *)

ConversionNeeded == FileExt(pa_file.name) \in {"aac", "amr"}

\* C6: when the audio needs conversion (aac, amr) and the transcoder is
\* unavailable or exits with a non-zero status, prepare_audio fails: it
\* returns no buffer, neither the input bytes nor what the output file holds.
C6_NoBufferWhenTranscoderFails ==
    (pa_pc = "done" /\ ConversionNeeded /\ pa_transcoder \in {"missing", "exit1"}) =>
        pa_result.kind = "raised"

\* C7: when convert_to_wav has finished, on any exit path, neither transient
\* file it created is left on disk.
C7_NoTransientFileLeft ==
    pa_pc = "done" =>
        /\ InputPath(FileExt(pa_file.name)) \notin DOMAIN pa_disk
        /\ OutputPath(FileExt(pa_file.name)) \notin DOMAIN pa_disk

\* C8: an upload whose extension is not one of mp3, wav, m4a, aac, amr is
\* refused as an unsupported format, whatever its size, before any transcoder
\* or service call: prepare_audio raises and hands back no buffer.
C8_UnsupportedExtensionRefused ==
    (pa_pc = "done" /\ FileExt(pa_file.name) \notin {"mp3", "wav", "m4a", "aac", "amr"}) =>
        /\ pa_result.kind = "raised"
        /\ pa_result.error.type = "UnsupportedFormat"
        /\ pa_transcoder = "notrun"

-----------------------------------------------------------------------------
(* Properties of the diarized formatter (SpecDiarize) *)

\* the line of the specification for one segment: the timed form when start
\* and end are there, the untimed form otherwise
TimingPresent(seg) == seg.start # None /\ seg.end # None

SpecLine(seg) ==
    IF TimingPresent(seg)
    THEN <<seg.speaker, " [">> \o Fmt1(seg.start) \o <<"s-">> \o Fmt1(seg.end)
            \o <<"s] : ">> \o seg.text
    ELSE <<seg.speaker, ": ">> \o seg.text

\* C9: for every sequence of diarized segments, start and end each optional,
\* the formatter returns a string with exactly one line per segment, in input
\* order, in the timed form when timing is present and the untimed form when
\* it is absent.
C9_OneLinePerSegmentInOrder ==
    (df_result # NoString /\ df_result.error \notin ServiceErrors) =>
        /\ df_result.kind = "string"
        /\ df_result.value =
                Join([i \in 1..Len(df_segments) |-> SpecLine(df_segments[i])], NewLine)

-----------------------------------------------------------------------------
(* What a failed plain run shows (Spec) *)

\* C10 as stated: when the call for chunk k of a plain run fails, what is
\* shown to the user carries the originating error and the index k.
C10_Original_FailureCarriesIndex ==
    (run.kind = "plain" /\ run.outcome = "failed" /\ run.k >= 1) =>
        /\ \E i \in 1..Len(st_errors) : st_errors[i] = run.err.msg
        /\ status_placeholder.idx = run.k

\* C10 amended: when the call for chunk k of a plain run fails, the user is
\* shown the transcription-error status and the message of the originating
\* error; the index k is not part of what is shown (the status line that
\* named the chunk is replaced by the error status).
C10_FailureCarriesErrorOnly ==
    (run.kind = "plain" /\ run.outcome = "failed" /\ run.k >= 1) =>
        /\ status_placeholder = StatusError
        /\ st_errors = <<run.err.msg>>
        /\ run.err \in ServiceErrors
        /\ status_placeholder.idx = 0

C10_Witness ==
    /\ run.kind = "plain"
    /\ run.outcome = "failed"
    /\ run.k >= 2
    /\ st_errors = <<"timeout">>

-----------------------------------------------------------------------------
(* The stored transcript over a whole session (Spec) *)

\* C11: after any sequence of plain runs, diarized runs and summary requests
\* of a session, full_transcript is absent from st.session_state when no
\* transcription run has ended well, and otherwise is exactly the complete
\* transcript of the last run that ended well (replaced, never merged with an
\* earlier one, and untouched by failed and refused runs); the summary service
\* is called with that stored transcript only, and never before a run has
\* ended well.
C11_TranscriptIsLastSuccessfulRun ==
    /\ last_success = <<>> =>
            /\ "full_transcript" \notin DOMAIN session_state
            /\ summary_calls = <<>>
    /\ last_success # <<>> =>
            /\ "full_transcript" \in DOMAIN session_state
            /\ session_state["full_transcript"] = last_success[1]
    /\ \A i \in 1..Len(summary_calls) : summary_calls[i] = last_success[1]
    /\ run.outcome \in {"failed", "rejected", "unconfigured", "running"} =>
            session_state = run.before

C11_Witness ==
    /\ run.outcome = "ok"
    /\ nruns = 2
    /\ "full_transcript" \in DOMAIN run.before
    /\ "meeting_summary" \in DOMAIN run.before
    /\ run.before["full_transcript"] # session_state["full_transcript"]
    /\ Len(run.before["full_transcript"]) > Len(session_state["full_transcript"])
    /\ last_success = <<session_state["full_transcript"]>>

=============================================================================
